---------------------------- MODULE Spec2Model ----------------------------
(***************************************************************************)
(* pyxides.typing: the OfTypes / ListOf metaclass factory, which builds    *)
(* container classes restricted to an allow-list of item types, and the    *)
(* _TypeEnforcer mixin, which checks items on construction, append and     *)
(* extend.                                                                 *)
(*                                                                         *)
(* Class objects are records (Ref); class statements and calls are the     *)
(* actions.  Python's own machinery that the source relies on without      *)
(* spelling it out (type.__call__, the C3 method resolution order,         *)
(* UserList's storage) is modelled next to the code that invokes it.       *)
(***************************************************************************)
EXTENDS Integers, Sequences, FiniteSets, TLC

VARIABLES
    classes,    \* the container classes declared so far, in declaration order
    self,       \* the container instance at hand: its class (0: none) and data
    result      \* what the last call was given and how it ended

vars == <<classes, self, result>>

---------------------------------------------------------------------------
(* Bounds of the exploration *)

MaxArgs == 3        \* longest argument list handed to the factory
MaxPrev == 2        \* longest inherited allow-list handed to the narrowing check
MaxBases == 4       \* most bases the declared classes hold altogether
MaxInit == 3        \* longest iterable handed to a constructor
MaxExt == 2         \* longest iterable handed to extend
MaxLen == 4         \* a container is not grown beyond this length

---------------------------------------------------------------------------
(* Python values *)

Range(s) == {s[i] : i \in 1..Len(s)}

Min(S) == CHOOSE m \in S : \A n \in S : m <= n

\* classes that can stand in an allow-list; bool derives from int
TypeNames == {"int", "bool", "str"}

\* what a caller may hand to the factory: classes, a str instance, an int instance
ArgValues == TypeNames \cup {"'a'", "3"}

IsClass(v) == v \in TypeNames \cup {"object"}

IsStr(v) == v = "'a'"

issubclass(a, b) == a = b \/ b = "object" \/ (a = "bool" /\ b = "int")

\* an item is represented by its runtime type
Items == {"int", "str"}

isinstance(obj, types) == \E i \in 1..Len(types) : issubclass(obj, types[i])

\* a class object
Ref(k, name, meta, allowed, id) ==
    [k |-> k, name |-> name, meta |-> meta, allowed |-> allowed, id |-> id]

Object == Ref("object", "object", "type", <<>>, 0)

UserList == Ref("seq", "UserList", "ABCMeta", <<>>, 0)

\* some other abc.Container a caller may write among the bases
OtherContainer == Ref("seq", "list", "type", <<>>, 0)

\* a class that is neither a container nor an enforcer
Plain == Ref("plain", "Plain", "type", <<>>, 0)

_TypeEnforcer == Ref("te", "_TypeEnforcer", "type", <<"object">>, 0)

\* what a direct factory call returns: type 'ListOf', bases (_TypeEnforcer,)
Enforcer(meta, allowed, id) == Ref("enf", "ListOf", meta, allowed, id)

\* a class made by a class statement, the id-th of the registry
ClassRef(id) == Ref("cls", "C", "", <<>>, id)

Metas == {"OfTypes", "ListOf"}

\* the metaclass hierarchy: type < ABCMeta < OfTypes < ListOf
MetaRank(m) ==
    CASE m = "type" -> 0 [] m = "ABCMeta" -> 1 [] m = "OfTypes" -> 2 [] m = "ListOf" -> 3

TypeOf(reg, b) == IF b.k = "cls" THEN reg[b.id].meta ELSE b.meta

\* isinstance(bb, cls) for a metaclass cls
IsInstanceOfMeta(reg, bb, cls) == MetaRank(TypeOf(reg, bb)) >= MetaRank(cls)

\* base.__bases__ (the ABCs above UserList are left out: none is an enforcer)
BasesOf(reg, b) ==
    CASE b.k = "cls" -> reg[b.id].bases
      [] b.k = "enf" -> <<_TypeEnforcer>>
      [] b.k = "object" -> <<>>
      [] OTHER -> <<Object>>

\* base.__mro__
MroOf(reg, b) ==
    CASE b.k = "cls" -> reg[b.id].mro
      [] b.k = "enf" -> <<b, _TypeEnforcer, Object>>
      [] b.k = "object" -> <<Object>>
      [] OTHER -> <<b, Object>>

\* issubclass(base, abc.Container)
IsContainer(reg, b) == \E c \in Range(MroOf(reg, b)) : c.k = "seq"

\* issubclass(base, _TypeEnforcer)
IsEnforcer(reg, b) == _TypeEnforcer \in Range(MroOf(reg, b))

\* base._allowed_types: the attribute of the first class of the MRO that has it
AllowedOf(reg, b) ==
    LET mro == MroOf(reg, b)
        has == {i \in 1..Len(mro) : mro[i].k \in {"enf", "te"}}
    IN  mro[Min(has)].allowed

\* the C3 merge of type.__new__
RECURSIVE merge(_, _)
merge(seqs, acc) ==
    LET ne == SelectSeq(seqs, LAMBDA s : s # <<>>)
    IN  IF ne = <<>> THEN [ok |-> TRUE, mro |-> acc]
        ELSE LET good(h) == \A j \in 1..Len(ne) : h \notin Range(Tail(ne[j]))
                 cands == {i \in 1..Len(ne) : good(Head(ne[i]))}
             IN  IF cands = {} THEN [ok |-> FALSE, mro |-> acc]
                 ELSE LET h == Head(ne[Min(cands)])
                      IN  merge([j \in 1..Len(ne) |->
                                    IF Head(ne[j]) = h THEN Tail(ne[j]) ELSE ne[j]],
                                Append(acc, h))

Exc(exc, msg) == [exc |-> exc, msg |-> msg]

NoExc == Exc("none", "")

---------------------------------------------------------------------------
(* OfTypes *)

\* the nested loops of _check_allowed_types: the raise stands in the body of
\* the inner loop, after the if, so the body runs for the first requested
\* type only: it either breaks or raises
RECURSIVE _check_loop(_, _, _)
_check_loop(requested, previous, i) ==
    IF i > Len(previous) THEN NoExc
    ELSE IF requested = <<>> THEN _check_loop(requested, previous, i + 1)
    ELSE IF issubclass(requested[1], previous[i])
         THEN _check_loop(requested, previous, i + 1)
         ELSE Exc("TypeError", "Multiple incompatible type restrictions")

_check_allowed_types(name, requested_allowed_types, previous_allowed_types) ==
    IF previous_allowed_types # <<>>
    THEN _check_loop(requested_allowed_types, previous_allowed_types, 1)
    ELSE NoExc

\* the inner loop of _get_allowed_types over base.__bases__
RECURSIVE _previous_of(_, _, _, _)
_previous_of(reg, cls, bbs, j) ==
    IF j > Len(bbs) THEN <<>>
    ELSE (IF IsInstanceOfMeta(reg, bbs[j], cls) THEN AllowedOf(reg, bbs[j]) ELSE <<>>)
         \o _previous_of(reg, cls, bbs, j + 1)

\* the loop of _get_allowed_types; index 0 stands for None, bound tells
\* whether requested_allowed_types was ever assigned
RECURSIVE _scan_bases(_, _, _, _, _)
_scan_bases(reg, cls, bases, i, st) ==
    IF i > Len(bases) THEN st
    ELSE LET base == bases[i]
             st1 == IF IsContainer(reg, base) THEN [st EXCEPT !.idx_cnt = i] ELSE st
             st2 == IF IsEnforcer(reg, base)
                    THEN [st1 EXCEPT !.requested = AllowedOf(reg, base),
                                     !.bound = TRUE, !.idx_enf = i]
                    ELSE st1
             st3 == [st2 EXCEPT !.previous =
                                  @ \o _previous_of(reg, cls, BasesOf(reg, base), 1)]
         IN  _scan_bases(reg, cls, bases, i + 1, st3)

_get_allowed_types(reg, cls, bases) ==
    LET st == _scan_bases(reg, cls, bases, 1,
                          [idx_enf |-> 0, idx_cnt |-> 0, requested |-> <<>>,
                           bound |-> FALSE, previous |-> <<>>])
    IN  st

\* a slip in the second slice: bases[idx_enf + 1:] loses the enforcer
InjectUserList_losing(bases, idx_enf) ==
    SubSeq(bases, 1, idx_enf - 1) \o <<UserList>>
        \o SubSeq(bases, idx_enf + 1, Len(bases))

\* bases[:idx_enf] + (UserList,) + bases[idx_enf:], idx_enf counted from 1 here
InjectUserList(bases, idx_enf) ==
    SubSeq(bases, 1, idx_enf - 1) \o <<UserList>> \o SubSeq(bases, idx_enf, Len(bases))

\* _bases.insert(idx_cnt, _bases.pop(idx_enf)) for idx_cnt < idx_enf
MoveEnforcer(bases, idx_enf, idx_cnt) ==
    SubSeq(bases, 1, idx_cnt - 1) \o <<bases[idx_enf]>>
        \o SubSeq(bases, idx_cnt, idx_enf - 1) \o SubSeq(bases, idx_enf + 1, Len(bases))

make_bases(reg, cls, name, bases) ==
    LET g == _get_allowed_types(reg, cls, bases)
        chk == _check_allowed_types(name, g.requested, g.previous)
        injected == IF g.idx_cnt = 0 THEN InjectUserList(bases, g.idx_enf) ELSE bases
    IN  IF ~g.bound
        THEN [exc |-> Exc("UnboundLocalError", "requested_allowed_types"), bases |-> <<>>]
        ELSE IF chk # NoExc THEN [exc |-> chk, bases |-> <<>>]
        ELSE IF g.idx_cnt = 0 /\ cls # "ListOf"
        THEN [exc |-> Exc("TypeError", "without preceding container type"),
              bases |-> <<>>]
        ELSE IF g.idx_enf = 0 \/ g.idx_cnt = 0 THEN [exc |-> NoExc, bases |-> injected]
        ELSE IF g.idx_cnt < g.idx_enf
        THEN [exc |-> NoExc, bases |-> MoveEnforcer(bases, g.idx_enf, g.idx_cnt)]
        ELSE [exc |-> NoExc, bases |-> bases]

\* type.__new__(cls, name, bases, attrs): rejects a repeated base and an
\* inconsistent method resolution order, else lays the class out
type_new(reg, cls, id, bases) ==
    LET me == ClassRef(id)
        lin == merge([i \in 1..(Len(bases) + 1) |->
                         IF i <= Len(bases) THEN MroOf(reg, bases[i]) ELSE bases],
                     <<me>>)
    IN  IF \E i, j \in 1..Len(bases) : i < j /\ bases[i] = bases[j]
        THEN [exc |-> Exc("TypeError", "duplicate base class"), class |-> <<>>]
        ELSE IF ~lin.ok
        THEN [exc |-> Exc("TypeError", "Cannot create a consistent MRO"), class |-> <<>>]
        ELSE [exc |-> NoExc,
              class |-> <<[meta |-> cls, bases |-> bases, mro |-> lin.mro,
                           emit |-> "none"]>>]

\* OfTypes.__new__ reached from a class statement: args = (name, bases, attrs)
NewClass(reg, cls, id, bases) ==
    LET mb == make_bases(reg, cls, "C", bases)
    IN  IF mb.exc # NoExc THEN [exc |-> mb.exc, bases |-> <<>>, class |-> <<>>]
        ELSE LET made == type_new(reg, cls, id, mb.bases)
             IN  [exc |-> made.exc, bases |-> mb.bases, class |-> made.class]

\* OfTypes.__new__ reached by a direct call OfTypes(*args), then the
\* type.__init__(obj, *args) that type.__call__ runs on the class it got back
__new__(cls, args) ==
    IF Len(args) = 0
    THEN [exc |-> Exc("IndexError", "tuple index out of range"),
          created |-> FALSE, allowed |-> <<>>]
    ELSE IF IsStr(args[1])
    THEN IF Len(args) # 3
         THEN [exc |-> Exc("ValueError", "values to unpack"),
               created |-> FALSE, allowed |-> <<>>]
         ELSE [exc |-> Exc("TypeError", "bases is not a tuple of classes"),
               created |-> FALSE, allowed |-> <<>>]
    ELSE IF Len(args) = 0
    THEN [exc |-> Exc("ValueError", "requires at least one argument"),
          created |-> FALSE, allowed |-> <<>>]
    ELSE IF \E i \in 1..Len(args) : ~IsClass(args[i])
    THEN [exc |-> Exc("TypeError", "should be classes"),
          created |-> FALSE, allowed |-> <<>>]
    ELSE IF Len(args) \notin {1, 3}
    THEN [exc |-> Exc("TypeError", "type.__init__() takes 1 or 3 arguments"),
          created |-> TRUE, allowed |-> <<>>]
    ELSE [exc |-> NoExc, created |-> TRUE, allowed |-> args]

---------------------------------------------------------------------------
(* The state machine *)

NoResult ==
    [op |-> "none", exc |-> "none", msg |-> "", meta |-> "", args |-> <<>>,
     ret |-> <<>>, created |-> FALSE, bases |-> <<>>, newbases |-> <<>>,
     cls |-> 0, warned |-> 0, prev |-> <<>>]

NoInstance == [cls |-> 0, data |-> <<>>]

Init ==
    /\ classes = <<>>
    /\ self = NoInstance
    /\ result = NoResult

RECURSIVE SeqsUpTo(_, _)
SeqsUpTo(S, n) ==
    IF n <= 0 THEN {<<>>}
    ELSE LET shorter == SeqsUpTo(S, n - 1)
         IN  shorter \cup {Append(s, x) : s \in {t \in shorter : Len(t) = n - 1}, x \in S}

\* allow-lists of the factory calls written inline in class statements: a
\* type and a subtype of it, so that a statement can narrow or widen
DeclLists == {<<"int">>, <<"bool">>}

\* what can be written as a base: 0 ids are given when the statement is run
BaseChoices(reg) ==
    {UserList, OtherContainer, Plain}
        \cup {Enforcer(m, a, 0) : m \in Metas, a \in DeclLists}
        \cup {ClassRef(i) : i \in 1..Len(reg)}

\* every inline factory call makes a new class object: number them
Fresh(reg, bases) ==
    [i \in 1..Len(bases) |->
        IF bases[i].k = "enf"
        THEN [bases[i] EXCEPT !.id = 10 * (Len(reg) + 1)
                                     + Cardinality({j \in 1..i : bases[j].k = "enf"})]
        ELSE bases[i]]

\* the metaclass Python picks for a class statement: the most derived one
MetaclassOf(reg, bases) ==
    LET ranks == {MetaRank(TypeOf(reg, bases[i])) : i \in 1..Len(bases)}
        top == CHOOSE r \in ranks : \A q \in ranks : q <= r
    IN  CHOOSE m \in {"type", "ABCMeta", "OfTypes", "ListOf"} : MetaRank(m) = top

\* what a class statement leaves behind, r being what OfTypes.__new__ gave
Statement(cls, bases, r) ==
    /\ classes' = classes \o r.class
    /\ result' = [NoResult EXCEPT !.op = "class", !.exc = r.exc.exc,
                                  !.msg = r.exc.msg, !.meta = cls,
                                  !.bases = bases, !.newbases = r.bases,
                                  !.created = (r.class # <<>>),
                                  !.cls = IF r.class # <<>> THEN Len(classes) + 1 ELSE 0]
    /\ UNCHANGED self

\* class C(*bases): pass
Declare(bases0) ==
    LET bases == Fresh(classes, bases0)
        cls == MetaclassOf(classes, bases)
    IN  /\ cls \in Metas
        /\ Statement(cls, bases, NewClass(classes, cls, Len(classes) + 1, bases))

RECURSIVE BasesHeld(_, _)
BasesHeld(reg, i) == IF i > Len(reg) THEN 0 ELSE Len(reg[i].bases) + BasesHeld(reg, i + 1)

BaseTuples(reg) ==
    {b \in SeqsUpTo(BaseChoices(reg), MaxBases - BasesHeld(reg, 1)) :
        /\ b # <<>>
        /\ \A i, j \in 1..Len(b) : (i < j /\ b[i] = b[j]) => b[i].k = "enf"}

\* a run of class statements: an exception raised by one is not caught, so
\* the run ends with it
ClassStatement ==
    /\ result.exc = "none"
    /\ \E b \in BaseTuples(classes) : Declare(b)

NextBases == ClassStatement

SpecBases == Init /\ [][NextBases]_vars


---------------------------------------------------------------------------
(* Direct factory calls *)

\* OfTypes(*args) or ListOf(*args)
FactoryCall(cls, args) ==
    LET r == __new__(cls, args)
    IN  /\ result' = [NoResult EXCEPT !.op = "call", !.exc = r.exc.exc,
                                      !.msg = r.exc.msg, !.meta = cls, !.args = args,
                                      !.ret = r.allowed, !.created = r.created]
        /\ UNCHANGED <<classes, self>>

ArgLists == SeqsUpTo(ArgValues, MaxArgs)

NextNew ==
    /\ result.exc = "none"
    /\ \E cls \in Metas, args \in ArgLists : FactoryCall(cls, args)

SpecNew == Init /\ [][NextNew]_vars

---------------------------------------------------------------------------
(* The narrowing check on its own *)

CheckAllowed(requested, previous) ==
    LET r == _check_allowed_types("C", requested, previous)
    IN  /\ result' = [NoResult EXCEPT !.op = "check", !.exc = r.exc, !.msg = r.msg,
                                      !.args = requested, !.prev = previous]
        /\ UNCHANGED <<classes, self>>

NextCheck ==
    \E requested \in SeqsUpTo(TypeNames, MaxArgs) \ {<<>>},
       previous \in SeqsUpTo(TypeNames, MaxPrev) : CheckAllowed(requested, previous)

SpecCheck == Init /\ [][NextCheck]_vars

---------------------------------------------------------------------------
(* _TypeEnforcer *)

\* _TypeEnforcer._actions
_actions(severity) ==
    CASE severity = -1 -> "echo0" [] severity = 0 -> "warn" [] severity = 1 -> "raise"

Severities == {-1, 0, 1}

\* self.emit: the attribute of the first class of the MRO that has it;
\* _TypeEnforcer.emit is _actions[1]
EmitOf(reg, c) ==
    LET mro == reg[c].mro
        has == {i \in 1..Len(mro) :
                   \/ mro[i].k = "te"
                   \/ (mro[i].k = "cls" /\ reg[mro[i].id].emit # "none")}
        first == mro[Min(has)]
    IN  IF first.k = "te" THEN _actions(1) ELSE reg[first.id].emit

\* whose __init__, append and extend an instance of class c gets:
\* _TypeEnforcer's if it precedes every container of the MRO
EnforcerFirst(reg, c) ==
    LET mro == reg[c].mro
        te == {i \in 1..Len(mro) : mro[i].k = "te"}
        seq == {i \in 1..Len(mro) : mro[i].k = "seq"}
    IN  te # {} /\ (seq = {} \/ Min(te) < Min(seq))

\* recipes.iter.first_true_index over (raises, warns, silent); -1: none is true
first_true_index(flags) ==
    LET true == {i \in 1..Len(flags) : flags[i] = "True"}
    IN  IF true = {} THEN -1 ELSE Min(true) - 1

\* check_type(obj, i, emit) on an instance whose class has the given
\* _allowed_types and emit; emit "None" is the omitted argument
check_type(allowed, class_emit, obj, emit) ==
    LET use == IF emit # "None" THEN emit ELSE class_emit
    IN  IF isinstance(obj, allowed) THEN [exc |-> NoExc, warned |-> 0]
        ELSE IF use = "echo0" THEN [exc |-> NoExc, warned |-> 0]
        ELSE IF Len(allowed) > 1
        THEN [exc |-> Exc("TypeError", "tuple indices must be integers or slices"),
              warned |-> 0]
        ELSE IF use = "raise"
        THEN [exc |-> Exc("TypeError", "Items in container class"), warned |-> 0]
        ELSE [exc |-> NoExc, warned |-> 1]

\* the generator checks_type(itr, raises, warns, silent) drained by list(...)
\* or list.extend(...): each item is checked, then yielded and stored, before
\* the next one is looked at; out holds what was stored when it ended
RECURSIVE _drain(_, _, _, _, _, _, _)
_drain(allowed, class_emit, itr, emit, i, out, warned) ==
    IF i > Len(itr) THEN [exc |-> NoExc, out |-> out, warned |-> warned]
    ELSE LET r == check_type(allowed, class_emit, itr[i], emit)
         IN  IF r.exc # NoExc THEN [exc |-> r.exc, out |-> out, warned |-> warned]
             ELSE _drain(allowed, class_emit, itr, emit, i + 1,
                         Append(out, itr[i]), warned + r.warned)

checks_type(allowed, class_emit, itr, raises, warns, silent) ==
    LET flags == IF raises = "None" /\ warns = "None" /\ silent = "None"
                 THEN <<"True", warns, silent>>
                 ELSE <<raises, warns, silent>>
        idx == first_true_index(flags)
    IN  IF idx = -1
        THEN [exc |-> Exc("TypeError", "unsupported operand"), out |-> <<>>, warned |-> 0]
        ELSE _drain(allowed, class_emit, itr, _actions(1 - idx), 1, <<>>, 0)

\* C(items): _TypeEnforcer.__init__ hands the generator to the next __init__,
\* UserList's, which stores list(generator); where UserList comes first in
\* the MRO its __init__ is the one called and stores list(items)
__init__(reg, c, items) ==
    IF EnforcerFirst(reg, c)
    THEN LET r == checks_type(AllowedOf(reg, ClassRef(c)), EmitOf(reg, c), items,
                              "None", "None", "None")
         IN  [exc |-> r.exc, warned |-> r.warned,
              self |-> IF r.exc = NoExc THEN <<[cls |-> c, data |-> r.out]>> ELSE <<>>]
    ELSE [exc |-> NoExc, warned |-> 0, self |-> <<[cls |-> c, data |-> items]>>]

\* self.append(item)
append(reg, obj, item) ==
    IF EnforcerFirst(reg, obj.cls)
    THEN LET r == check_type(AllowedOf(reg, ClassRef(obj.cls)), EmitOf(reg, obj.cls),
                             item, "None")
         IN  [exc |-> r.exc, warned |-> r.warned,
              data |-> IF r.exc = NoExc THEN Append(obj.data, item) ELSE obj.data]
    ELSE [exc |-> NoExc, warned |-> 0, data |-> Append(obj.data, item)]

\* self.extend(itr)
extend(reg, obj, itr) ==
    IF EnforcerFirst(reg, obj.cls)
    THEN LET r == checks_type(AllowedOf(reg, ClassRef(obj.cls)), EmitOf(reg, obj.cls),
                              itr, "None", "None", "None")
         IN  [exc |-> r.exc, warned |-> r.warned, data |-> obj.data \o r.out]
    ELSE [exc |-> NoExc, warned |-> 0, data |-> obj.data \o itr]

\* cls.type_checking(severity)
type_checking(reg, c, severity) == [reg EXCEPT ![c].emit = _actions(severity)]

---------------------------------------------------------------------------
(* Instances of declared container classes *)

TypeChecking(c, severity) ==
    /\ classes' = type_checking(classes, c, severity)
    /\ result' = [NoResult EXCEPT !.op = "type_checking", !.cls = c]
    /\ UNCHANGED self

Construct(c, items) ==
    LET r == __init__(classes, c, items)
    IN  /\ self' = IF r.self # <<>> THEN r.self[1] ELSE self
        /\ result' = [NoResult EXCEPT !.op = "construct", !.cls = c, !.args = items,
                                      !.exc = r.exc.exc, !.msg = r.exc.msg,
                                      !.warned = r.warned]
        /\ UNCHANGED classes

AppendOp(item) ==
    LET r == append(classes, self, item)
    IN  /\ self.cls # 0
        /\ Len(self.data) < MaxLen
        /\ self' = [self EXCEPT !.data = r.data]
        /\ result' = [NoResult EXCEPT !.op = "append", !.cls = self.cls,
                                      !.args = <<item>>, !.exc = r.exc.exc,
                                      !.msg = r.exc.msg, !.warned = r.warned]
        /\ UNCHANGED classes

ExtendOp(itr) ==
    LET r == extend(classes, self, itr)
    IN  /\ self.cls # 0
        /\ Len(self.data) + Len(itr) <= MaxLen
        /\ self' = [self EXCEPT !.data = r.data]
        /\ result' = [NoResult EXCEPT !.op = "extend", !.cls = self.cls,
                                      !.args = itr, !.exc = r.exc.exc,
                                      !.msg = r.exc.msg, !.warned = r.warned]
        /\ UNCHANGED classes

\* the registry after one more class statement
Declared(reg, bases0) ==
    LET bases == Fresh(reg, bases0)
    IN  reg \o NewClass(reg, MetaclassOf(reg, bases), Len(reg) + 1, bases).class

\* allow-lists of the container classes whose instances are exercised: one
\* allowed type, and several
InstLists == {<<"int">>, <<"str", "bool", "str">>}

\* class C(UserList, OfType(T...)) and class C(ListOf(T...)), each followed
\* by class D(C)
ParentBases ==
    {<<UserList, Enforcer("OfTypes", a, 0)>> : a \in InstLists}
        \cup {<<Enforcer("ListOf", a, 0)>> : a \in InstLists}

InitArgs == SeqsUpTo(Items, MaxInit)

ExtendArgs == SeqsUpTo(Items, MaxExt)

InitInst ==
    /\ classes \in {Declared(Declared(<<>>, b), <<ClassRef(1)>>) : b \in ParentBases}
    /\ self = NoInstance
    /\ result = NoResult

Next ==
    \/ \E c \in 1..Len(classes), severity \in Severities : TypeChecking(c, severity)
    \/ \E c \in 1..Len(classes), items \in InitArgs : Construct(c, items)
    \/ \E item \in Items : AppendOp(item)
    \/ \E itr \in ExtendArgs : ExtendOp(itr)

Spec == InitInst /\ [][Next]_vars

---------------------------------------------------------------------------
(* Properties of class statements, checked under SpecBases *)

Without(seq, x) == SelectSeq(seq, LAMBDA y : y # x)

\* the metaclasses of the enforcers written among the bases of the last statement
EnforcerMetas(r) == {r.bases[i].meta : i \in {j \in 1..Len(r.bases) : r.bases[j].k = "enf"}}

NoContainerBase(reg, r) == \A i \in 1..Len(r.bases) : ~IsContainer(reg, r.bases[i])

\* C7: a class statement whose bases hold an enforcer and no sequence
\* container fails with the usage TypeError and creates no class when the
\* enforcer comes from OfType/OfTypes; when it comes from ListOf the statement
\* succeeds, UserList is added to the bases exactly once and every declared
\* base is kept, in order.
C7_DefaultContainer ==
    [][(result'.op = "class" /\ NoContainerBase(classes, result')) =>
          /\ EnforcerMetas(result') = {"OfTypes"} =>
                /\ result'.exc = "TypeError"
                /\ result'.msg = "without preceding container type"
                /\ ~result'.created
                /\ classes' = classes
          /\ EnforcerMetas(result') = {"ListOf"} =>
                /\ result'.exc = "none"
                /\ result'.created
                /\ Len(classes') = Len(classes) + 1
                /\ classes'[Len(classes')].bases = result'.newbases
                /\ Cardinality({i \in 1..Len(result'.newbases) :
                                   result'.newbases[i] = UserList}) = 1
                /\ Without(result'.newbases, UserList) = result'.bases]_vars

\* C7 happens: a ListOf enforcer written beside another base, no container
\* among them, and the class was made with UserList among its bases
C7_Witness ==
    /\ result.op = "class"
    /\ result.exc = "none"
    /\ NoContainerBase(classes, result)
    /\ EnforcerMetas(result) = {"ListOf"}
    /\ Plain \in Range(result.bases)
    /\ UserList \in Range(classes[result.cls].bases)

\* C9: in every base tuple make_bases returns that holds both an enforcer
\* and a sequence container (declared or injected), the enforcer stands
\* before every container; the other bases keep their order and none is
\* dropped or duplicated.
C9_EnforcerBeforeContainers ==
    (result.op = "class" /\ result.newbases # <<>>) =>
        LET old == result.bases
            new == result.newbases
            enf == {i \in 1..Len(new) : new[i].k = "enf"}
            cnt == {i \in 1..Len(new) : IsContainer(classes, new[i])}
            injected == NoContainerBase(classes, result)
            last == CHOOSE i \in 1..Len(old) :
                       /\ old[i].k = "enf"
                       /\ \A j \in 1..Len(old) : old[j].k = "enf" => j <= i
            others(seq) == SelectSeq(seq, LAMBDA b :
                               b # old[last] /\ ~(injected /\ b = UserList))
        IN  (enf # {} /\ cnt # {}) =>
                /\ \E i \in enf : \A j \in cnt : i < j
                /\ others(new) = others(old)
                /\ Len(new) = Len(old) + (IF injected THEN 1 ELSE 0)
                /\ old[last] \in Range(new)

\* the last statement derives from a declared container class and one new enforcer
DerivingPair(r) ==
    /\ r.op = "class"
    /\ Len(r.bases) = 2
    /\ {r.bases[1].k, r.bases[2].k} = {"cls", "enf"}

\* C3: a class statement whose bases are a declared container class
\* restricted to T_prev and a new enforcer restricted to T_new, in either
\* order, succeeds with effective allowed types T_new when T_new is a subtype
\* of T_prev and fails with the TypeError 'Multiple incompatible type
\* restrictions' when it is not; no derived class that was created has an
\* allowed type that is not a subtype of some inherited allowed type.
C3_NeverWidens ==
    /\ DerivingPair(result) =>
          LET parent == IF result.bases[1].k = "cls" THEN result.bases[1]
                        ELSE result.bases[2]
              enf == IF result.bases[1].k = "enf" THEN result.bases[1]
                     ELSE result.bases[2]
              T_prev == AllowedOf(classes, parent)
              T_new == enf.allowed
              narrows == \A i \in 1..Len(T_new) : \E j \in 1..Len(T_prev) :
                             issubclass(T_new[i], T_prev[j])
          IN  /\ narrows => /\ result.exc = "none"
                            /\ AllowedOf(classes, ClassRef(result.cls)) = T_new
              /\ ~narrows => /\ result.exc = "TypeError"
                             /\ result.msg = "Multiple incompatible type restrictions"
    /\ (result.op = "class" /\ result.created) =>
          LET inherited == UNION {Range(AllowedOf(classes, result.bases[i])) :
                                     i \in {j \in 1..Len(result.bases) :
                                               result.bases[j].k = "cls"}}
          IN  inherited # {} =>
                 \A t \in Range(AllowedOf(classes, ClassRef(result.cls))) :
                     \E u \in inherited : issubclass(t, u)

---------------------------------------------------------------------------
(* Properties of direct factory calls, checked under SpecNew *)

\* C6: OfTypes(*args) / ListOf(*args) raises the ValueError 'requires at
\* least one argument' for an empty argument list and the TypeError 'should
\* be classes' when any argument, at any position, is not a class, in both
\* cases before a class is created; given one or more classes it returns an
\* enforcer whose _allowed_types is the tuple of the arguments in order.
C6_FactoryArguments ==
    result.op = "call" =>
        LET args == result.args
            classes_only == \A i \in 1..Len(args) : IsClass(args[i])
        IN  /\ args = <<>> =>
                  /\ result.exc = "ValueError"
                  /\ result.msg = "requires at least one argument"
                  /\ ~result.created
            /\ (args # <<>> /\ ~classes_only) =>
                  /\ result.exc = "TypeError"
                  /\ result.msg = "should be classes"
                  /\ ~result.created
            /\ (args # <<>> /\ classes_only) =>
                  /\ result.exc = "none"
                  /\ result.ret = args

---------------------------------------------------------------------------
(* Properties of the narrowing check, checked under SpecCheck *)

\* C8: _check_allowed_types(name, requested, inherited) accepts exactly when
\* every inherited type has some requested type, at any position, that is a
\* subtype of it, and raises the TypeError 'Multiple incompatible type
\* restrictions' otherwise; an empty inherited list is always accepted.
C8_NarrowingRule ==
    result.op = "check" =>
        LET narrowed == \A i \in 1..Len(result.prev) : \E j \in 1..Len(result.args) :
                            issubclass(result.args[j], result.prev[i])
        IN  /\ narrowed => result.exc = "none"
            /\ ~narrowed => /\ result.exc = "TypeError"
                            /\ result.msg = "Multiple incompatible type restrictions"

---------------------------------------------------------------------------
(* Properties of container instances, checked under Spec *)

Conforms(reg, c, item) == isinstance(item, AllowedOf(reg, ClassRef(c)))

\* type_checking was never called
DefaultSeverity == \A c \in 1..Len(classes) : classes[c].emit = "none"

\* C1: under the default severity every item stored in a container, of a
\* class of either form, is an instance of one of the class's allowed types,
\* whatever constructions, appends and extends came before, failed or not.
C1_OnlyAllowedItems ==
    (DefaultSeverity /\ self.cls # 0) =>
        \A k \in 1..Len(self.data) : Conforms(classes, self.cls, self.data[k])

\* class C(ListOf(int)): the class has a ListOf(int) enforcer among its bases
IsListOfInt(c) ==
    \E i \in 1..Len(classes[c].bases) :
        /\ classes[c].bases[i].k = "enf"
        /\ classes[c].bases[i].meta = "ListOf"
        /\ classes[c].bases[i].allowed = <<"int">>

\* C2: an instance of a ListOf(int) subclass made from three ints has length
\* 3; appending a non-int to it under the default severity raises TypeError
\* and leaves length and contents as they were; and any append that fails
\* under raise severity leaves the contents as they were.
C2_FailedAppendStoresNothing ==
    [][/\ (/\ result'.op = "construct"
           /\ IsListOfInt(result'.cls)
           /\ result'.args = <<"int", "int", "int">>) =>
              /\ result'.exc = "none"
              /\ self'.cls = result'.cls
              /\ Len(self'.data) = 3
       /\ (/\ result'.op = "append"
           /\ IsListOfInt(self.cls)
           /\ self.data = <<"int", "int", "int">>
           /\ DefaultSeverity
           /\ ~isinstance(result'.args[1], <<"int">>)) =>
              /\ result'.exc = "TypeError"
              /\ self'.data = self.data
       /\ (/\ result'.op = "append"
           /\ EmitOf(classes, self.cls) = "raise"
           /\ result'.exc # "none") =>
              self'.data = self.data]_vars

\* C4: once type_checking has set the class-level severity to warn or
\* silent, appending a non-conforming item returns normally and the item is
\* the last of the container; the call emits exactly one diagnostic under
\* warn and none under silent, whatever the size of the allow-list.
C4_WarnAndSilentAppend ==
    [][(/\ result'.op = "append"
        /\ EmitOf(classes, self.cls) \in {"warn", "echo0"}
        /\ ~Conforms(classes, self.cls, result'.args[1])) =>
           /\ result'.exc = "none"
           /\ self'.data = Append(self.data, result'.args[1])
           /\ result'.warned = (IF EmitOf(classes, self.cls) = "warn" THEN 1 ELSE 0)]_vars

\* C5: the severity set by type_checking governs construction and extend,
\* for the class and its subclasses: under warn or silent they do not abort
\* and store every supplied item in order; set to raise, they abort on the
\* first non-conforming item.
C5_SeverityGovernsBulk ==
    [][(result'.op \in {"construct", "extend"} /\ ~DefaultSeverity) =>
          LET c == result'.cls
              items == result'.args
              emit == EmitOf(classes, c)
          IN  /\ emit \in {"warn", "echo0"} =>
                    /\ result'.exc = "none"
                    /\ self'.cls = c
                    /\ self'.data = (IF result'.op = "extend" THEN self.data ELSE <<>>)
                                        \o items
              /\ (/\ emit = "raise"
                  /\ \E k \in 1..Len(items) : ~Conforms(classes, c, items[k])) =>
                    result'.exc = "TypeError"]_vars

\* C10: under raise severity extend stores the items in order up to the
\* first non-conforming one and raises TypeError there: the contents are the
\* old contents followed by the conforming items that came before it; with
\* no non-conforming item all items are stored, in order.
C10_ExtendStoresPrefix ==
    [][(result'.op = "extend" /\ EmitOf(classes, self.cls) = "raise") =>
          LET items == result'.args
              bad == {k \in 1..Len(items) : ~Conforms(classes, self.cls, items[k])}
          IN  IF bad = {}
              THEN result'.exc = "none" /\ self'.data = self.data \o items
              ELSE /\ result'.exc = "TypeError"
                   /\ self'.data = self.data \o SubSeq(items, 1, Min(bad) - 1)]_vars

=============================================================================
